---- MODULE Spec2Model ----
(***************************************************************************)
(* A model of the library package: the in-memory store (library.go), its   *)
(* command layer (Invocation, the command variants and their JSON          *)
(* encoding) and the export / import of the command log.                   *)
(*                                                                         *)
(* A store is a record lib = [books, accounts, checkoutsByAccount,         *)
(* checkoutsByBook].  A Go map is a function whose DOMAIN is the set of    *)
(* keys present.  The two checkout indices map an id to the slice          *)
(* l.checkoutsByX[id]; a missing key and a key holding an empty slice are  *)
(* both the empty sequence (the code only takes len of, ranges over and    *)
(* appends to these slices), so an index keeps a key only while its slice  *)
(* is not empty.  Every store operation is an operator from a store and    *)
(* the call's arguments to [lib |-> the store after, err |-> the error].   *)
(***************************************************************************)
EXTENDS Integers, Sequences, FiniteSets, TLC

VARIABLES books, accounts, checkoutsByAccount, checkoutsByBook, last, importer,
          inv, mu, threads, driver

vars ==
    <<books, accounts, checkoutsByAccount, checkoutsByBook, last, importer, inv,
      mu, threads, driver>>

(***************************************************************************)
(* Bounds of the model.                                                    *)
(***************************************************************************)
\* Account ids are 1..MaxAccounts.
MaxAccounts == 2
\* Count arguments are -1..MaxCount, and a caller never lets a book hold
\* more than MaxCount copies (the overflow specification lifts this cap).
MaxCount == 2
\* Go's int is a two's complement machine word; it is modelled IntBits wide.
IntBits == 4
\* An imported stream holds at most MaxStream lines.
MaxStream == 3

\* The most checkouts one account may hold.
MaxCheckouts == 4

MaxInt == 2 ^ (IntBits - 1) - 1
MinInt == -(2 ^ (IntBits - 1))

\* Machine arithmetic: the result of an int operation, wrapped to the word.
WrapInt(x) == ((x - MinInt) % (2 ^ IntBits)) + MinInt

(***************************************************************************)
(* Errors.  nil is Nil; a sentinel or fmt.Errorf error is its message      *)
(* (without the names and ids fmt.Errorf formats into some of them).       *)
(***************************************************************************)
Nil == "nil"
ErrBookNotExist == "book does not exist"
ErrAccountNotExist == "account does not exist"
ErrCheckoutNotExist == "checkout does not exist"
ErrBookAlreadyExists == "book already exists"
ErrAddNegative == "cannot add negative copies"
ErrRemoveNegative == "cannot remove negative copies"
ErrRemoveMoreThanExist == "cannot remove more copies than exist"
ErrRemoveMoreThanAvailable == "cannot remove more copies than are available to check out"
ErrAccountAlreadyExists == "account already exists"
ErrCheckoutLimit == "cannot checkout more than 4 books at a time"
ErrDuplicateCheckout == "cannot checkout more than one copy"

(***************************************************************************)
(* The store.                                                              *)
(***************************************************************************)
Res(l, e) == [lib |-> l, err |-> e]

\* The empty map.
EmptyMap == [k \in {} |-> 0]

\* library.New
New ==
    [books |-> EmptyMap, accounts |-> EmptyMap,
     checkoutsByAccount |-> EmptyMap, checkoutsByBook |-> EmptyMap]

\* m[k] of a map of slices: the nil slice when the key is missing.
Slice(m, k) == IF k \in DOMAIN m THEN m[k] ELSE <<>>

\* m[k] = s for a map of slices.
SetSlice(m, k, s) ==
    IF s = <<>> THEN [j \in DOMAIN m \ {k} |-> m[j]]
    ELSE [j \in DOMAIN m \cup {k} |-> IF j = k THEN s ELSE m[j]]

\* m[k] = v for a map of records.
SetKey(m, k, v) == [j \in DOMAIN m \cup {k} |-> IF j = k THEN v ELSE m[j]]

\* Mutant of AddBook: the count is checked before the id.
AddBook_CountFirst(l, id, name, count) ==
    IF count < 0 THEN Res(l, ErrAddNegative)
    ELSE IF id \in DOMAIN l.books THEN Res(l, ErrBookAlreadyExists)
    ELSE Res([l EXCEPT !.books =
                  SetKey(@, id, [ID |-> id, Name |-> name, Count |-> count])],
             Nil)

\* Mutant of AddBook: the record is stored without its name.
AddBook_DropsName(l, id, name, count) ==
    IF id \in DOMAIN l.books THEN Res(l, ErrBookAlreadyExists)
    ELSE IF count < 0 THEN Res(l, ErrAddNegative)
    ELSE Res([l EXCEPT !.books =
                  SetKey(@, id, [ID |-> id, Name |-> "", Count |-> count])],
             Nil)

AddBook(l, id, name, count) ==
    IF id \in DOMAIN l.books THEN Res(l, ErrBookAlreadyExists)
    ELSE IF count < 0 THEN Res(l, ErrAddNegative)
    ELSE Res([l EXCEPT !.books =
                  SetKey(@, id, [ID |-> id, Name |-> name, Count |-> count])],
             Nil)

AddCopies(l, id, count) ==
    IF id \notin DOMAIN l.books THEN Res(l, ErrBookNotExist)
    ELSE IF count < 0 THEN Res(l, ErrAddNegative)
    ELSE Res([l EXCEPT !.books[id].Count = WrapInt(@ + count)], Nil)

\* Mutant of Available: the copies checked out are not subtracted.
Available_IgnoresCheckouts(l, id) == l.books[id].Count

\* available := book.Count - len(l.checkoutsByBook[book.ID])
Available(l, id) ==
    WrapInt(l.books[id].Count - Len(Slice(l.checkoutsByBook, id)))

\* Mutant of RemoveCopies: the copies are taken off before the test of the
\* available copies.
RemoveCopies_WritesBeforeAvailability(l, id, count) ==
    IF id \notin DOMAIN l.books THEN Res(l, ErrBookNotExist)
    ELSE IF count < 0 THEN Res(l, ErrRemoveNegative)
    ELSE IF l.books[id].Count < count THEN Res(l, ErrRemoveMoreThanExist)
    ELSE LET m == [l EXCEPT !.books[id].Count = WrapInt(@ - count)] IN
         IF Available(l, id) < count THEN Res(m, ErrRemoveMoreThanAvailable)
         ELSE Res(m, Nil)

RemoveCopies(l, id, count) ==
    IF id \notin DOMAIN l.books THEN Res(l, ErrBookNotExist)
    ELSE IF count < 0 THEN Res(l, ErrRemoveNegative)
    ELSE IF l.books[id].Count < count THEN Res(l, ErrRemoveMoreThanExist)
    ELSE IF Available(l, id) < count THEN Res(l, ErrRemoveMoreThanAvailable)
    ELSE Res([l EXCEPT !.books[id].Count = WrapInt(@ - count)], Nil)

\* Mutant of CreateAccount: an account that exists is replaced.
CreateAccount_Overwrites(l, id, name) ==
    Res([l EXCEPT !.accounts = SetKey(@, id, [ID |-> id, Name |-> name])], Nil)

CreateAccount(l, id, name) ==
    IF id \in DOMAIN l.accounts THEN Res(l, ErrAccountAlreadyExists)
    ELSE Res([l EXCEPT !.accounts = SetKey(@, id, [ID |-> id, Name |-> name])],
             Nil)

\* matchCheckout, and the loop condition of CheckoutBook.
MatchCheckout(checkout, accountID, bookID) ==
    checkout.AccountID = accountID /\ checkout.BookID = bookID

\* Mutant of ContainsCheckout: only the newest checkout is compared.
ContainsCheckout_LastOnly(s, accountID, bookID) ==
    s # <<>> /\ MatchCheckout(s[Len(s)], accountID, bookID)

\* slices.ContainsFunc(s, matchCheckout)
ContainsCheckout(s, accountID, bookID) ==
    \E i \in 1..Len(s) : MatchCheckout(s[i], accountID, bookID)

\* Mutant of DeleteCheckout: every checkout of the book is deleted.
DeleteCheckout_AnyAccount(s, accountID, bookID) ==
    LET Keep(c) == c.BookID # bookID IN SelectSeq(s, Keep)

\* slices.DeleteFunc(s, matchCheckout)
DeleteCheckout(s, accountID, bookID) ==
    LET Keep(c) == ~MatchCheckout(c, accountID, bookID) IN SelectSeq(s, Keep)

\* Mutant of AtLimit: the comparison is off by one.
AtLimit_OffByOne(checkouts) == Len(checkouts) > MaxCheckouts

\* The account's checkout limit is reached.
AtLimit(checkouts) == Len(checkouts) >= MaxCheckouts

\* The checkout CheckoutBook appends to both indices.
NewCheckout(accountID, bookID) == [AccountID |-> accountID, BookID |-> bookID]

\* Mutant of CheckoutBook: a book with no available copy is refused.
CheckoutBook_ChecksAvailable(l, accountID, bookID) ==
    IF accountID \notin DOMAIN l.accounts THEN Res(l, ErrAccountNotExist)
    ELSE IF bookID \notin DOMAIN l.books THEN Res(l, ErrBookNotExist)
    ELSE LET checkouts == Slice(l.checkoutsByAccount, accountID) IN
         IF AtLimit(checkouts) THEN Res(l, ErrCheckoutLimit)
         ELSE IF ContainsCheckout(checkouts, accountID, bookID)
              THEN Res(l, ErrDuplicateCheckout)
         ELSE IF Available(l, bookID) <= 0
              THEN Res(l, ErrRemoveMoreThanAvailable)
         ELSE LET checkout == NewCheckout(accountID, bookID) IN
              Res([l EXCEPT
                     !.checkoutsByAccount =
                         SetSlice(@, accountID,
                                  Append(Slice(@, accountID), checkout)),
                     !.checkoutsByBook =
                         SetSlice(@, bookID,
                                  Append(Slice(@, bookID), checkout))],
                  Nil)

\* Mutant of CheckoutBook: the book is not looked up.
CheckoutBook_NoBookLookup(l, accountID, bookID) ==
    IF accountID \notin DOMAIN l.accounts THEN Res(l, ErrAccountNotExist)
    ELSE LET checkouts == Slice(l.checkoutsByAccount, accountID) IN
         IF AtLimit(checkouts) THEN Res(l, ErrCheckoutLimit)
         ELSE IF ContainsCheckout(checkouts, accountID, bookID)
              THEN Res(l, ErrDuplicateCheckout)
         ELSE LET checkout == NewCheckout(accountID, bookID) IN
              Res([l EXCEPT
                     !.checkoutsByAccount =
                         SetSlice(@, accountID,
                                  Append(Slice(@, accountID), checkout)),
                     !.checkoutsByBook =
                         SetSlice(@, bookID,
                                  Append(Slice(@, bookID), checkout))],
                  Nil)

\* Mutant of CheckoutBook: the duplicate is looked for before the limit.
CheckoutBook_DuplicateFirst(l, accountID, bookID) ==
    IF accountID \notin DOMAIN l.accounts THEN Res(l, ErrAccountNotExist)
    ELSE IF bookID \notin DOMAIN l.books THEN Res(l, ErrBookNotExist)
    ELSE LET checkouts == Slice(l.checkoutsByAccount, accountID) IN
         IF ContainsCheckout(checkouts, accountID, bookID)
         THEN Res(l, ErrDuplicateCheckout)
         ELSE IF AtLimit(checkouts) THEN Res(l, ErrCheckoutLimit)
         ELSE LET checkout == NewCheckout(accountID, bookID) IN
              Res([l EXCEPT
                     !.checkoutsByAccount =
                         SetSlice(@, accountID,
                                  Append(Slice(@, accountID), checkout)),
                     !.checkoutsByBook =
                         SetSlice(@, bookID,
                                  Append(Slice(@, bookID), checkout))],
                  Nil)

CheckoutBook(l, accountID, bookID) ==
    IF accountID \notin DOMAIN l.accounts THEN Res(l, ErrAccountNotExist)
    ELSE IF bookID \notin DOMAIN l.books THEN Res(l, ErrBookNotExist)
    ELSE LET checkouts == Slice(l.checkoutsByAccount, accountID) IN
         IF AtLimit(checkouts) THEN Res(l, ErrCheckoutLimit)
         ELSE IF ContainsCheckout(checkouts, accountID, bookID)
              THEN Res(l, ErrDuplicateCheckout)
         ELSE LET checkout == NewCheckout(accountID, bookID) IN
              Res([l EXCEPT
                     !.checkoutsByAccount =
                         SetSlice(@, accountID,
                                  Append(Slice(@, accountID), checkout)),
                     !.checkoutsByBook =
                         SetSlice(@, bookID,
                                  Append(Slice(@, bookID), checkout))],
                  Nil)

\* Mutant of ReturnBook: the checkout stays in the index by book.
ReturnBook_OneIndex(l, accountID, bookID) ==
    IF accountID \notin DOMAIN l.accounts THEN Res(l, ErrAccountNotExist)
    ELSE IF bookID \notin DOMAIN l.books THEN Res(l, ErrBookNotExist)
    ELSE IF ~ContainsCheckout(Slice(l.checkoutsByAccount, accountID),
                              accountID, bookID)
         THEN Res(l, ErrCheckoutNotExist)
    ELSE Res([l EXCEPT
                !.checkoutsByAccount =
                    SetSlice(@, accountID,
                             DeleteCheckout(Slice(@, accountID),
                                            accountID, bookID))],
             Nil)

ReturnBook(l, accountID, bookID) ==
    IF accountID \notin DOMAIN l.accounts THEN Res(l, ErrAccountNotExist)
    ELSE IF bookID \notin DOMAIN l.books THEN Res(l, ErrBookNotExist)
    ELSE IF ~ContainsCheckout(Slice(l.checkoutsByAccount, accountID),
                              accountID, bookID)
         THEN Res(l, ErrCheckoutNotExist)
    ELSE Res([l EXCEPT
                !.checkoutsByAccount =
                    SetSlice(@, accountID,
                             DeleteCheckout(Slice(@, accountID),
                                            accountID, bookID)),
                !.checkoutsByBook =
                    SetSlice(@, bookID,
                             DeleteCheckout(Slice(@, bookID),
                                            accountID, bookID))],
             Nil)

\* A nil pointer.
NilPointer == [nil |-> TRUE]

\* Library.Account and Library.Book: the record, or nil for an unknown id.
Account(l, id) == IF id \in DOMAIN l.accounts THEN l.accounts[id] ELSE NilPointer
Book(l, id) == IF id \in DOMAIN l.books THEN l.books[id] ELSE NilPointer

\* Library.CheckoutsByAccount and Library.CheckoutsByBook
CheckoutsByAccount(l, id) == Slice(l.checkoutsByAccount, id)
CheckoutsByBook(l, id) == Slice(l.checkoutsByBook, id)

(***************************************************************************)
(* The command layer.  A command variant is a record whose type is the     *)
(* name of its Go struct; an encoded command (one line of a log) is        *)
(* [json, name, arguments]: json is FALSE for a line that is not JSON,     *)
(* name is the "name" token and arguments the "arguments" object, a        *)
(* function from JSON field names to values.                               *)
(***************************************************************************)
CmdAddBook(id, name, count) ==
    [type |-> "AddBook", ID |-> id, Name |-> name, Count |-> count]
CmdAddCopies(id, count) == [type |-> "AddCopies", ID |-> id, Count |-> count]
CmdRemoveCopies(id, count) ==
    [type |-> "RemoveCopies", ID |-> id, Count |-> count]
CmdCreateAccount(id, name) == [type |-> "CreateAccount", ID |-> id, Name |-> name]
CmdCheckoutBook(accountID, bookID) ==
    [type |-> "CheckoutBook", AccountID |-> accountID, BookID |-> bookID]
CmdReturnBook(accountID, bookID) ==
    [type |-> "ReturnBook", AccountID |-> accountID, BookID |-> bookID]
CmdPrintCatalog == [type |-> "PrintCatalog"]
CmdPrintAccounts == [type |-> "PrintAccounts"]

\* The value of inv.Command before a decode sets it.
NoCommand == [type |-> "nil"]

ErrExecUnknown == "exec: unknown command type"
ErrMarshalUnknown == "marshal: unknown command type"
ErrUnmarshalUnknown == "unmarshal: unknown command type"
ErrSyntax == "invalid character"
ErrUnmarshalType == "json: cannot unmarshal number into Go struct field"

\* Strings that are not valid UTF-8, and the string of U+FFFD that
\* encoding/json puts in place of their invalid bytes.
InvalidUTF8 == {"\\xff"}
Replacement == "\\ufffd"

\* A Go string as encoding/json writes it and reads it back.
JSONString(str) == IF str \in InvalidUTF8 THEN Replacement ELSE str

\* json.Marshal(inv.Command): the struct's fields under their json tags.
MarshalArguments(cmd) ==
    CASE cmd.type = "AddBook" ->
             [id |-> cmd.ID, name |-> JSONString(cmd.Name), count |-> cmd.Count]
      [] cmd.type \in {"AddCopies", "RemoveCopies"} ->
             [id |-> cmd.ID, count |-> cmd.Count]
      [] cmd.type = "CreateAccount" ->
             [id |-> cmd.ID, name |-> JSONString(cmd.Name)]
      [] cmd.type \in {"CheckoutBook", "ReturnBook"} ->
             [accountId |-> cmd.AccountID, bookId |-> cmd.BookID]
      [] OTHER -> EmptyMap

\* The switch of MarshalJSON: the name token of a variant, "" for none.
CommandName(cmd) ==
    CASE cmd.type = "AddBook" -> "ADD_BOOK"
      [] cmd.type = "AddCopies" -> "ADD_COPIES"
      [] cmd.type = "RemoveCopies" -> "REMOVE_COPIES"
      [] cmd.type = "CreateAccount" -> "CREATE_ACCOUNT"
      [] cmd.type = "CheckoutBook" -> "CHECKOUT_BOOK"
      [] cmd.type = "ReturnBook" -> "RETURN_BOOK"
      [] cmd.type = "PrintCatalog" -> "PRINT_CATALOG"
      [] cmd.type = "PrintAccounts" -> "PRINT_ACCOUNTS"
      [] OTHER -> ""

Line(name, arguments) == [json |-> TRUE, name |-> name, arguments |-> arguments]

\* A line that is not JSON.
Garbage == [json |-> FALSE, name |-> "", arguments |-> EmptyMap]

\* Invocation.MarshalJSON
MarshalJSON(cmd) ==
    IF CommandName(cmd) = ""
    THEN [err |-> ErrMarshalUnknown, line |-> Garbage]
    ELSE [err |-> Nil, line |-> Line(CommandName(cmd), MarshalArguments(cmd))]

\* A field of the arguments object read into an int or a string field: the
\* zero value when the object lacks it.
IntField(arguments, f) == IF f \in DOMAIN arguments THEN arguments[f] ELSE 0
StringField(arguments, f) ==
    IF f \in DOMAIN arguments THEN JSONString(arguments[f]) ELSE ""

\* A number that does not fit the int field it is read into.
OutOfRange(arguments, fields) ==
    \E f \in fields \cap DOMAIN arguments :
        arguments[f] < MinInt \/ arguments[f] > MaxInt

\* Invocation.UnmarshalJSON
UnmarshalJSON(line) ==
    LET a == line.arguments
        Into(fields, cmd) ==
            IF OutOfRange(a, fields)
            THEN [err |-> ErrUnmarshalType, cmd |-> NoCommand]
            ELSE [err |-> Nil, cmd |-> cmd]
    IN
    IF ~line.json THEN [err |-> ErrSyntax, cmd |-> NoCommand]
    ELSE CASE line.name = "ADD_BOOK" ->
                  Into({"id", "count"},
                       CmdAddBook(IntField(a, "id"), StringField(a, "name"),
                                  IntField(a, "count")))
           [] line.name = "ADD_COPIES" ->
                  Into({"id", "count"},
                       CmdAddCopies(IntField(a, "id"), IntField(a, "count")))
           [] line.name = "REMOVE_COPIES" ->
                  Into({"id", "count"},
                       CmdRemoveCopies(IntField(a, "id"), IntField(a, "count")))
           [] line.name = "CREATE_ACCOUNT" ->
                  Into({"id"},
                       CmdCreateAccount(IntField(a, "id"), StringField(a, "name")))
           [] line.name = "CHECKOUT_BOOK" ->
                  Into({"accountId", "bookId"},
                       CmdCheckoutBook(IntField(a, "accountId"),
                                       IntField(a, "bookId")))
           [] line.name = "RETURN_BOOK" ->
                  Into({"accountId", "bookId"},
                       CmdReturnBook(IntField(a, "accountId"),
                                     IntField(a, "bookId")))
           [] line.name = "PRINT_CATALOG" -> [err |-> Nil, cmd |-> CmdPrintCatalog]
           [] line.name = "PRINT_ACCOUNTS" -> [err |-> Nil, cmd |-> CmdPrintAccounts]
           [] OTHER -> [err |-> ErrUnmarshalUnknown, cmd |-> NoCommand]

\* The orders in which a range loop may visit the keys of a map.
Orders(keys) ==
    {o \in [1..Cardinality(keys) -> keys] :
        \A i, j \in 1..Cardinality(keys) : o[i] = o[j] => i = j}

\* The store operation a command variant stands for, applied to l.
StoreCall(l, cmd) ==
    CASE cmd.type = "AddBook" -> AddBook(l, cmd.ID, cmd.Name, cmd.Count)
      [] cmd.type = "AddCopies" -> AddCopies(l, cmd.ID, cmd.Count)
      [] cmd.type = "RemoveCopies" -> RemoveCopies(l, cmd.ID, cmd.Count)
      [] cmd.type = "CreateAccount" -> CreateAccount(l, cmd.ID, cmd.Name)
      [] cmd.type = "CheckoutBook" -> CheckoutBook(l, cmd.AccountID, cmd.BookID)
      [] cmd.type = "ReturnBook" -> ReturnBook(l, cmd.AccountID, cmd.BookID)
      [] OTHER -> Res(l, Nil)

\* An Invocation: the raw command it was decoded from, its command and its
\* output.  A narration is the sequence of the pieces fmt.Sprintf puts
\* together, the format's literal text and its formatted arguments.
NoRawCommand == [json |-> TRUE, name |-> "", arguments |-> EmptyMap]
NoOutput == <<>>
Invocation(cmd) ==
    [RawCommand |-> NoRawCommand, Command |-> cmd, Output |-> NoOutput]

\* The Invocation that decoding line leaves when it succeeds.
Decoded(line) ==
    [RawCommand |-> line, Command |-> UnmarshalJSON(line).cmd,
     Output |-> NoOutput]

\* CreateAccount{}: the zero CreateAccount that is not a pointer, which is
\* none of the cases of the type switches.
CreateAccountValue == [type |-> "CreateAccount (not a pointer)", ID |-> 0, Name |-> ""]

\* The verb %d, and what fmt writes for a %d that has no argument and for
\* an argument that has no verb.
FormatInt(n) == ToString(n)
MissingInt == "%!d(MISSING)"
Extra(e) == <<"%!(EXTRA ", e, ")">>

\* The report of PrintCatalog, EachBook visiting the books in order.
RECURSIVE CatalogSections(_, _)
CatalogSections(l, order) ==
    IF order = <<>> THEN <<>>
    ELSE LET book == l.books[Head(order)]
             checkouts == CheckoutsByBook(l, book.ID)
         IN  <<"## ", book.Name, " (", FormatInt(book.ID), ")\n",
               "Copies: ", FormatInt(book.Count), "\n",
               "Checked Out: ", FormatInt(Len(checkouts)), "\n", "\n">>
             \o CatalogSections(l, Tail(order))

\* The bulleted list of the books of a list of checkouts.
RECURSIVE CheckoutLines(_, _)
CheckoutLines(l, checkouts) ==
    IF checkouts = <<>> THEN <<>>
    ELSE LET book == Book(l, Head(checkouts).BookID)
         IN  <<"- ", book.Name, " (", FormatInt(book.ID), ")\n">>
             \o CheckoutLines(l, Tail(checkouts))

\* The report of PrintAccounts, EachAccount visiting the accounts in order.
RECURSIVE AccountSections(_, _)
AccountSections(l, order) ==
    IF order = <<>> THEN <<>>
    ELSE LET account == l.accounts[Head(order)]
         IN  <<"## ", account.Name, " (", FormatInt(account.ID), ")\n",
               "Checked Out Books:\n">>
             \o CheckoutLines(l, CheckoutsByAccount(l, account.ID))
             \o <<"\n">>
             \o AccountSections(l, Tail(order))

\* The keys EachBook or EachAccount ranges over when cmd is executed.
VisitKeys(l, cmd) ==
    IF cmd.type = "PrintCatalog" THEN DOMAIN l.books
    ELSE IF cmd.type = "PrintAccounts" THEN DOMAIN l.accounts
    ELSE {}

\* Invocation.Exec on the store l, the range loop of a print command
\* visiting the keys in order: the store after, the error returned and the
\* Invocation after.
Exec(l, iv, order) ==
    LET cmd == iv.Command
        Done(r, output) ==
            [lib |-> r.lib, err |-> r.err, inv |-> [iv EXCEPT !.Output = output]]
    IN
    CASE cmd.type = "AddBook" ->
           LET r == AddBook(l, cmd.ID, cmd.Name, cmd.Count) IN
           IF r.err # Nil
           THEN Done(r, <<cmd.Name, " (", FormatInt(cmd.ID),
                          ") could not be added to the catalog, ", r.err>>)
           ELSE Done(r, <<cmd.Name, " (", FormatInt(cmd.ID), ") with ",
                          FormatInt(cmd.Count), " copies added to the catalog">>)
      [] cmd.type = "AddCopies" ->
           LET r == AddCopies(l, cmd.ID, cmd.Count)
               book == Book(r.lib, cmd.ID)
           IN
           IF r.err = ErrBookNotExist
           THEN Done(r, <<"could not add ", FormatInt(cmd.ID),
                          " copies, book (", MissingInt, ") does not exist">>)
           ELSE IF r.err # Nil
           THEN Done(r, <<book.Name, " (", FormatInt(book.ID),
                          ") could not add ", FormatInt(cmd.Count),
                          " copies, ", r.err>>)
           ELSE Done(r, <<book.Name, " (", FormatInt(book.ID), ") added ",
                          FormatInt(cmd.Count), " copies">>)
      [] cmd.type = "RemoveCopies" ->
           LET r == RemoveCopies(l, cmd.ID, cmd.Count)
               book == Book(r.lib, cmd.ID)
           IN
           IF r.err = ErrBookNotExist
           THEN Done(r, <<"could not remove ", FormatInt(cmd.ID),
                          " copies, book (", MissingInt, ") does not exist">>)
           ELSE IF r.err # Nil
           THEN Done(r, <<book.Name, " (", FormatInt(book.ID),
                          ") could not remove ", FormatInt(cmd.Count),
                          " copies, ", r.err>>)
           ELSE Done(r, <<book.Name, " (", FormatInt(book.ID), ") removed ",
                          FormatInt(cmd.Count), " copies">>)
      [] cmd.type = "CreateAccount" ->
           LET r == CreateAccount(l, cmd.ID, cmd.Name)
               output ==
                   IF r.err # Nil
                   THEN <<cmd.Name, " (", FormatInt(cmd.ID),
                          ") could not create account, ", r.err>>
                   ELSE <<cmd.Name, " (", FormatInt(cmd.ID), ") created account">>
           IN  [lib |-> r.lib, err |-> r.err,
                inv |-> [iv EXCEPT !.Command = CreateAccountValue,
                                    !.Output = output]]
      [] cmd.type = "CheckoutBook" ->
           LET r == CheckoutBook(l, cmd.AccountID, cmd.BookID)
               account == Account(r.lib, cmd.AccountID)
               book == Book(r.lib, cmd.BookID)
           IN
           IF r.err = ErrAccountNotExist
           THEN Done(r, <<"could not checkout book, account (",
                          FormatInt(cmd.AccountID), ") does not exist">>)
           ELSE IF r.err = ErrBookNotExist
           THEN Done(r, <<account.Name, " (", FormatInt(account.ID),
                          ") could not checkout book, book (",
                          FormatInt(cmd.BookID), ") does not exist">>)
           ELSE IF r.err # Nil
           THEN Done(r, <<account.Name, " (", FormatInt(account.ID),
                          ") could not checkout ", book.Name, " (",
                          FormatInt(book.ID), "), ", r.err>>)
           ELSE Done(r, <<account.Name, " (", FormatInt(account.ID),
                          ") checked out ", book.Name, " (",
                          FormatInt(book.ID), ")">>)
      [] cmd.type = "ReturnBook" ->
           LET r == ReturnBook(l, cmd.AccountID, cmd.BookID)
               account == Account(r.lib, cmd.AccountID)
               book == Book(r.lib, cmd.BookID)
           IN
           IF r.err = ErrAccountNotExist
           THEN Done(r, <<"could not return book, account (",
                          FormatInt(cmd.AccountID), ") does not exist">>)
           ELSE IF r.err = ErrBookNotExist
           THEN Done(r, <<account.Name, " (", FormatInt(account.ID),
                          ") could not return book, book (",
                          FormatInt(cmd.BookID), ") does not exist">>)
           ELSE IF r.err = ErrCheckoutNotExist
           THEN Done(r, <<account.Name, " (", FormatInt(account.ID),
                          ") could not return ", book.Name, " (",
                          FormatInt(book.ID), "), no checkout exists">>)
           ELSE IF r.err # Nil
           THEN Done(r, <<account.Name, " (", FormatInt(account.ID),
                          ") could not return ", book.Name, " (",
                          FormatInt(book.ID), ")">> \o Extra(r.err))
           ELSE Done(r, <<account.Name, " (", FormatInt(account.ID),
                          ") returned ", book.Name, " (",
                          FormatInt(book.ID), ")">>)
      [] cmd.type = "PrintCatalog" ->
           Done(Res(l, Nil), <<"# Library Catalog\n">> \o CatalogSections(l, order))
      [] cmd.type = "PrintAccounts" ->
           Done(Res(l, Nil), <<"# Accounts\n\n">> \o AccountSections(l, order))
      [] OTHER -> [lib |-> l, err |-> ErrExecUnknown, inv |-> iv]

\* An order in which a print command decoded from line may visit its keys.
\* Import prints the narration or drops it; the store it leaves and the
\* error it returns are the same for every order.
ImportOrder(l, line) ==
    CHOOSE order \in Orders(VisitKeys(l, UnmarshalJSON(line).cmd)) : TRUE
(***************************************************************************)
(* Export and Import.                                                      *)
(***************************************************************************)
\* The slices of a map of slices, one after the other in the order given.
RECURSIVE Flatten(_, _)
Flatten(m, order) ==
    IF order = <<>> THEN <<>>
    ELSE m[Head(order)] \o Flatten(m, Tail(order))

\* The commands Export encodes, its three loops visiting the books, the
\* accounts and the keys of checkoutsByAccount in the orders given.
ExportCommands(l, bookOrder, accountOrder, keyOrder) ==
    LET checkouts == Flatten(l.checkoutsByAccount, keyOrder) IN
    [i \in 1..Len(bookOrder) |->
        LET book == l.books[bookOrder[i]]
        IN  CmdAddBook(book.ID, book.Name, book.Count)]
    \o [i \in 1..Len(accountOrder) |->
        LET account == l.accounts[accountOrder[i]]
        IN  CmdCreateAccount(account.ID, account.Name)]
    \o [i \in 1..Len(checkouts) |->
        CmdCheckoutBook(checkouts[i].AccountID, checkouts[i].BookID)]

ErrWrite(e) == "failed to write library state, " \o e
ErrRead(e) == "failed to read library state, " \o e

\* Library.Export: the lines written and the error returned.
Export(l, bookOrder, accountOrder, keyOrder) ==
    LET cmds == ExportCommands(l, bookOrder, accountOrder, keyOrder)
        bad == {i \in 1..Len(cmds) : MarshalJSON(cmds[i]).err # Nil}
        n == IF bad = {} THEN Len(cmds)
             ELSE (CHOOSE i \in bad : \A j \in bad : i <= j) - 1
    IN  [w |-> [i \in 1..n |-> MarshalJSON(cmds[i]).line],
         err |-> IF bad = {} THEN Nil
                 ELSE ErrWrite(MarshalJSON(cmds[n + 1]).err)]

\* Mutant of ImportLine: a command that fails is skipped.
ImportLine_SkipsFailure(l, line) ==
    LET d == UnmarshalJSON(line) IN
    IF d.err # Nil THEN Res(l, Nil)
    ELSE Res(Exec(l, Decoded(line), ImportOrder(l, line)).lib, Nil)

\* One turn of Import's loop on the line the decoder reads next.
ImportLine(l, line) ==
    LET d == UnmarshalJSON(line) IN
    IF d.err # Nil THEN Res(l, ErrRead(d.err))
    ELSE LET x == Exec(l, Decoded(line), ImportOrder(l, line))
         IN  Res(x.lib, x.err)

\* Library.Import on the stream r of lines.
RECURSIVE Import(_, _)
Import(l, r) ==
    IF r = <<>> THEN Res(l, Nil)
    ELSE LET x == ImportLine(l, Head(r)) IN
         IF x.err # Nil THEN x ELSE Import(x.lib, Tail(r))

(***************************************************************************)
(* The lock l.mu, a sync.RWMutex, and the threads that call the store.     *)
(* mu.w is the thread inside Lock or holding the write lock (it owns the   *)
(* mutex of the writers, and from then on RLock blocks), mu.held says that *)
(* it holds the lock, mu.active[t] counts the read locks thread t holds    *)
(* and mu.blocked is the set of threads blocked in RLock.                  *)
(***************************************************************************)
\* Threads are 1..MaxThreads.
MaxThreads == 2
ThreadIDs == 1..MaxThreads

None == 0

Unlocked ==
    [w |-> None, held |-> FALSE, active |-> [t \in ThreadIDs |-> 0],
     blocked |-> {}]

\* A thread: where it is, the call it is making, whether it is inside the
\* visitor of EachBook or EachAccount, the keys still to visit and the
\* accessor calls the visitor has still to make for the key it is at, the
\* store as the thread read it, and the error it last returned; for Export,
\* the lines it has written and the slice its inner loop ranges over.
Idle ==
    [pc |-> "idle", cmd |-> NoCommand, nested |-> FALSE, todo |-> <<>>,
     calls |-> <<>>, seen |-> New, err |-> Nil, w |-> <<>>, slice |-> <<>>]

(***************************************************************************)
(* The driver, cmd/library: driver.db is the DB file, a sequence of lines, *)
(* which outlives the process; while a process runs, driver.pc is the      *)
(* place it is at, driver.commands the commands file it was given,         *)
(* driver.export the temporary file and driver.before the DB file as it    *)
(* was when the process started; driver.exit is the exit code of the last  *)
(* process.                                                                *)
(***************************************************************************)
NoFile == [exists |-> FALSE, lines |-> <<>>]
File(lines) == [exists |-> TRUE, lines |-> lines]

\* No process is running and the DB file holds db.
NoProcess(db) ==
    [pc |-> "off", exit |-> 0, db |-> db, commands |-> <<>>, export |-> NoFile,
     before |-> db]

(***************************************************************************)
(* The store as a state machine: one action per call of an operation.      *)
(* last records the call just made and the error it returned.              *)
(***************************************************************************)
Lib ==
    [books |-> books, accounts |-> accounts,
     checkoutsByAccount |-> checkoutsByAccount,
     checkoutsByBook |-> checkoutsByBook]

\* The store becomes r.lib and the call c returned r.err; no Import is
\* under way.
Returns(c, r) ==
    /\ books' = r.lib.books
    /\ accounts' = r.lib.accounts
    /\ checkoutsByAccount' = r.lib.checkoutsByAccount
    /\ checkoutsByBook' = r.lib.checkoutsByBook
    /\ last' = [op |-> c[1], args |-> Tail(c), err |-> r.err]
    /\ importer' = importer
    /\ inv' = inv
    /\ UNCHANGED <<mu, threads, driver>>

Init ==
    /\ books = New.books
    /\ accounts = New.accounts
    /\ checkoutsByAccount = New.checkoutsByAccount
    /\ checkoutsByBook = New.checkoutsByBook
    /\ last = [op |-> "New", args |-> <<>>, err |-> Nil]
    /\ importer = [pc |-> "idle", base |-> New, done |-> <<>>]
    /\ inv = Invocation(NoCommand)
    /\ mu = Unlocked
    /\ threads = [t \in ThreadIDs |-> Idle]
    /\ driver = NoProcess(<<>>)

CallAddBook(id, name, count) ==
    Returns(<<"AddBook", id, name, count>>, AddBook(Lib, id, name, count))

CallAddCopies(id, count) ==
    Returns(<<"AddCopies", id, count>>, AddCopies(Lib, id, count))

CallRemoveCopies(id, count) ==
    Returns(<<"RemoveCopies", id, count>>, RemoveCopies(Lib, id, count))

CallCreateAccount(id, name) ==
    Returns(<<"CreateAccount", id, name>>, CreateAccount(Lib, id, name))

CallCheckoutBook(accountID, bookID) ==
    Returns(<<"CheckoutBook", accountID, bookID>>,
            CheckoutBook(Lib, accountID, bookID))

CallReturnBook(accountID, bookID) ==
    Returns(<<"ReturnBook", accountID, bookID>>,
            ReturnBook(Lib, accountID, bookID))

\* The inputs of the store specification.
BookIDs == {1, 2}
AccountIDs == 1..MaxAccounts
BookNames == {"Dune"}
AccountNames == {"Ada"}
CountArgs == -1..MaxCount

\* A caller that keeps every book at MaxCount copies or fewer.
WithinCap(id, count) ==
    id \in DOMAIN books => books[id].Count + count <= MaxCount

Next ==
    \/ \E id \in BookIDs, name \in BookNames, count \in CountArgs :
          CallAddBook(id, name, count)
    \/ \E id \in BookIDs, count \in CountArgs :
          WithinCap(id, count) /\ CallAddCopies(id, count)
    \/ \E id \in BookIDs, count \in CountArgs : CallRemoveCopies(id, count)
    \/ \E id \in AccountIDs, name \in AccountNames : CallCreateAccount(id, name)
    \/ \E accountID \in AccountIDs, bookID \in BookIDs :
          CallCheckoutBook(accountID, bookID)
    \/ \E accountID \in AccountIDs, bookID \in BookIDs :
          CallReturnBook(accountID, bookID)

Spec == Init /\ [][Next]_vars

(***************************************************************************)
(* The store with count arguments up to the largest int and no cap on the  *)
(* copies a book holds, and Export.                                        *)
(***************************************************************************)
\* Library.Export, its loops visiting the maps in the orders given.
CallExport(bookOrder, accountOrder, keyOrder) ==
    LET e == Export(Lib, bookOrder, accountOrder, keyOrder)
    IN  Returns(<<"Export", e.w>>, Res(Lib, e.err))

WideBookIDs == {1}
WideBookNames == BookNames
WideCountArgs == {-1, 0, 1, MaxInt}

NextWide ==
    \/ \E id \in WideBookIDs, name \in WideBookNames, count \in WideCountArgs :
          CallAddBook(id, name, count)
    \/ \E id \in WideBookIDs, count \in WideCountArgs : CallAddCopies(id, count)
    \/ \E id \in WideBookIDs, count \in WideCountArgs :
          CallRemoveCopies(id, count)
    \/ \E id \in AccountIDs, name \in AccountNames : CallCreateAccount(id, name)
    \/ \E accountID \in AccountIDs, bookID \in WideBookIDs :
          CallCheckoutBook(accountID, bookID)
    \/ \E accountID \in AccountIDs, bookID \in WideBookIDs :
          CallReturnBook(accountID, bookID)
    \/ \E bookOrder \in Orders(DOMAIN books),
          accountOrder \in Orders(DOMAIN accounts),
          keyOrder \in Orders(DOMAIN checkoutsByAccount) :
          CallExport(bookOrder, accountOrder, keyOrder)

SpecWide == Init /\ [][NextWide]_vars

(***************************************************************************)
(* Import, one turn of its loop at a time, on a stream of at most          *)
(* MaxStream lines that the decoder reads as it goes.  importer.pc is      *)
(* "reading" inside the loop and "returned" after it; importer.base is the *)
(* store the call began with and importer.done the lines it has executed.  *)
(***************************************************************************)
Store == <<books, accounts, checkoutsByAccount, checkoutsByBook>>

SetStore(l) ==
    /\ books' = l.books
    /\ accounts' = l.accounts
    /\ checkoutsByAccount' = l.checkoutsByAccount
    /\ checkoutsByBook' = l.checkoutsByBook

\* l.Import(r, opts) is called.
ImportBegin ==
    /\ importer.pc # "reading"
    /\ importer' = [pc |-> "reading", base |-> Lib, done |-> <<>>]
    /\ UNCHANGED <<Store, last, inv>>
    /\ UNCHANGED <<mu, threads, driver>>

\* The decoder reads line: the loop decodes and executes it, and Import
\* returns the error if there is one.
ImportStep(line) ==
    /\ importer.pc = "reading"
    /\ Len(importer.done) < MaxStream
    /\ LET x == ImportLine(Lib, line) IN
       /\ SetStore(x.lib)
       /\ IF x.err # Nil
          THEN /\ importer' = [importer EXCEPT !.pc = "returned"]
               /\ last' = [op |-> "Import", args |-> <<line>>, err |-> x.err]
          ELSE /\ importer' = [importer EXCEPT !.done = Append(@, line)]
               /\ last' = [op |-> "Exec", args |-> <<line>>, err |-> Nil]
    /\ inv' = inv
    /\ UNCHANGED <<mu, threads, driver>>

\* The decoder reaches the end of the stream: Import returns nil.
ImportEOF ==
    /\ importer.pc = "reading"
    /\ importer' = [importer EXCEPT !.pc = "returned"]
    /\ last' = [op |-> "Import", args |-> <<>>, err |-> Nil]
    /\ UNCHANGED <<Store, inv>>
    /\ UNCHANGED <<mu, threads, driver>>

\* Library.Export between calls of Import.
ExportIdle(bookOrder, accountOrder, keyOrder) ==
    /\ importer.pc # "reading"
    /\ CallExport(bookOrder, accountOrder, keyOrder)

\* The lines a stream may hold: commands as MarshalJSON writes them, a
\* command of an unknown name, and a line that is not JSON.
LogCommands ==
    {CmdAddBook(1, "Dune", 1), CmdCreateAccount(1, "Ada"),
     CmdCheckoutBook(1, 1), CmdReturnBook(1, 1), CmdRemoveCopies(1, 1),
     CmdAddCopies(1, -1), CmdPrintCatalog, CmdPrintAccounts}
LogLines ==
    {MarshalJSON(cmd).line : cmd \in LogCommands}
        \cup {Line("REMOVE_BOOK", EmptyMap), Garbage}

NextLog ==
    \/ ImportBegin
    \/ \E line \in LogLines : ImportStep(line)
    \/ ImportEOF
    \/ \E bookOrder \in Orders(DOMAIN books),
          accountOrder \in Orders(DOMAIN accounts),
          keyOrder \in Orders(DOMAIN checkoutsByAccount) :
          ExportIdle(bookOrder, accountOrder, keyOrder)

SpecLog == Init /\ [][NextLog]_vars

(***************************************************************************)
(* The store driven to the checkout limit: one account, and one book more  *)
(* than an account may hold.                                               *)
(***************************************************************************)
LimitAccountIDs == {1}
LimitBookIDs == 1..(MaxCheckouts + 1)
LimitCountArgs == {0, 1}

\* A caller that keeps every book at one copy or none.
WithinLimitCap(id, count) ==
    id \in DOMAIN books => books[id].Count + count \in LimitCountArgs

NextLimit ==
    \/ \E id \in LimitBookIDs, name \in BookNames, count \in LimitCountArgs :
          CallAddBook(id, name, count)
    \/ \E id \in LimitBookIDs, count \in LimitCountArgs :
          WithinLimitCap(id, count) /\ CallAddCopies(id, count)
    \/ \E id \in LimitBookIDs, count \in LimitCountArgs :
          CallRemoveCopies(id, count)
    \/ \E id \in LimitAccountIDs, name \in AccountNames :
          CallCreateAccount(id, name)
    \/ \E accountID \in LimitAccountIDs, bookID \in LimitBookIDs :
          CallCheckoutBook(accountID, bookID)
    \/ \E accountID \in LimitAccountIDs, bookID \in LimitBookIDs :
          CallReturnBook(accountID, bookID)

SpecLimit == Init /\ [][NextLimit]_vars

(***************************************************************************)
(* The store called with two names for each kind of record and with       *)
(* counts up to the largest int, by a caller that never adds copies past   *)
(* the largest int.                                                        *)
(***************************************************************************)
RecordBookIDs == {1, 2}
RecordAccountIDs == {1}
RecordBookNames == {"Dune", "Emma"}
RecordAccountNames == {"Ada", "Bob"}
RecordCountArgs == {-1, 0, MaxInt}

\* A caller whose add_copies does not overflow.
WithinInt(id, count) ==
    id \in DOMAIN books => books[id].Count + count <= MaxInt

NextRecords ==
    \/ \E id \in RecordBookIDs, name \in RecordBookNames,
          count \in RecordCountArgs : CallAddBook(id, name, count)
    \/ \E id \in RecordBookIDs, count \in RecordCountArgs :
          WithinInt(id, count) /\ CallAddCopies(id, count)
    \/ \E id \in RecordBookIDs, count \in RecordCountArgs :
          CallRemoveCopies(id, count)
    \/ \E id \in RecordAccountIDs, name \in RecordAccountNames :
          CallCreateAccount(id, name)
    \/ \E accountID \in RecordAccountIDs, bookID \in RecordBookIDs :
          CallCheckoutBook(accountID, bookID)
    \/ \E accountID \in RecordAccountIDs, bookID \in RecordBookIDs :
          CallReturnBook(accountID, bookID)

SpecRecords == Init /\ [][NextRecords]_vars

(***************************************************************************)
(* A caller of the command layer: it decodes a line into the Invocation    *)
(* inv and executes inv against the store, as often as it likes.           *)
(***************************************************************************)
\* json.Unmarshal(line, &inv) into a new Invocation.
Decode(line) ==
    /\ UnmarshalJSON(line).err = Nil
    /\ inv' = Decoded(line)
    /\ last' = [op |-> "Decode", args |-> <<line>>, err |-> Nil]
    /\ UNCHANGED <<Store, importer>>
    /\ UNCHANGED <<mu, threads, driver>>

\* inv.Exec(l), a print command visiting the keys in order.
ExecInvocation(order) ==
    LET x == Exec(Lib, inv, order) IN
    /\ SetStore(x.lib)
    /\ inv' = x.inv
    /\ last' = [op |-> "Exec", args |-> <<inv>>, err |-> x.err]
    /\ importer' = importer
    /\ UNCHANGED <<mu, threads, driver>>

\* The commands the caller decodes.
ExecCommands ==
    {CmdAddBook(1, "Dune", 1), CmdAddBook(2, "Emma", -1),
     CmdAddCopies(1, 1), CmdAddCopies(1, -1), CmdAddCopies(2, 1),
     CmdRemoveCopies(1, 1), CmdRemoveCopies(1, -1), CmdRemoveCopies(2, 1),
     CmdCreateAccount(1, "Ada"),
     CmdCheckoutBook(1, 1), CmdCheckoutBook(2, 1), CmdCheckoutBook(1, 2),
     CmdReturnBook(1, 1), CmdReturnBook(2, 1), CmdReturnBook(1, 2),
     CmdPrintCatalog, CmdPrintAccounts}
ExecLines == {MarshalJSON(cmd).line : cmd \in ExecCommands}

NextExec ==
    \/ \E line \in ExecLines : Decode(line)
    \/ \E order \in Orders(VisitKeys(Lib, inv.Command)) : ExecInvocation(order)

SpecExec == Init /\ [][NextExec]_vars

(***************************************************************************)
(* A caller that builds an Invocation around a command, encodes it and     *)
(* decodes lines: the line it has just encoded, and lines written by       *)
(* others.                                                                 *)
(***************************************************************************)
\* inv = Invocation{Command: cmd}
NewInvocation(cmd) ==
    /\ inv' = Invocation(cmd)
    /\ last' = [op |-> "Invocation", args |-> <<cmd>>, err |-> Nil]
    /\ UNCHANGED <<Store, importer>>
    /\ UNCHANGED <<mu, threads, driver>>

\* json.Marshal(&inv): MarshalJSON leaves the record it wrote in
\* inv.RawCommand.
Marshal ==
    LET e == MarshalJSON(inv.Command) IN
    /\ inv' = IF e.err = Nil THEN [inv EXCEPT !.RawCommand = e.line] ELSE inv
    /\ last' = [op |-> "MarshalJSON", args |-> <<e.line>>, err |-> e.err]
    /\ UNCHANGED <<Store, importer>>
    /\ UNCHANGED <<mu, threads, driver>>

\* json.Unmarshal(line, &x) fails and the caller drops x.
RejectLine(line) ==
    /\ UnmarshalJSON(line).err # Nil
    /\ last' = [op |-> "Decode", args |-> <<line>>, err |-> UnmarshalJSON(line).err]
    /\ UNCHANGED <<Store, importer, inv>>
    /\ UNCHANGED <<mu, threads, driver>>

\* The payloads of the commands encoded: ints up to the ends of the range,
\* and names that are empty and that are not valid UTF-8.
CodecInts == {MinInt, 0, MaxInt}
CodecNames == {"", "Dune"} \cup InvalidUTF8
CodecCommands ==
    {CmdAddBook(id, name, count) :
        id \in CodecInts, name \in CodecNames, count \in CodecInts}
    \cup {CmdAddCopies(id, count) : id \in CodecInts, count \in CodecInts}
    \cup {CmdRemoveCopies(id, count) : id \in CodecInts, count \in CodecInts}
    \cup {CmdCreateAccount(id, name) : id \in CodecInts, name \in CodecNames}
    \cup {CmdCheckoutBook(accountID, bookID) :
             accountID \in CodecInts, bookID \in CodecInts}
    \cup {CmdReturnBook(accountID, bookID) :
             accountID \in CodecInts, bookID \in CodecInts}
    \cup {CmdPrintCatalog, CmdPrintAccounts}

\* Lines written by others: a command without its arguments, a print
\* command with arguments, a count too large for an int, an unknown name,
\* and a line that is not JSON.
CodecLines ==
    {Line("ADD_BOOK", EmptyMap),
     Line("PRINT_CATALOG", [id |-> 1]),
     Line("ADD_COPIES", [id |-> 1, count |-> MaxInt + 1]),
     Line("REMOVE_BOOK", EmptyMap),
     Garbage}

NextCodec ==
    \/ \E cmd \in CodecCommands : NewInvocation(cmd)
    \/ Marshal
    \/ \E line \in CodecLines \cup {inv.RawCommand} : Decode(line)
    \/ \E line \in CodecLines \cup {inv.RawCommand} : RejectLine(line)

SpecCodec == Init /\ [][NextCodec]_vars

(***************************************************************************)
(* Threads calling the store.  Every call takes l.mu as its method does;   *)
(* a mutating method reads the store and then writes it, in two steps      *)
(* inside its critical section.                                            *)
(***************************************************************************)
Mutating(cmd) ==
    cmd.type \in {"AddBook", "AddCopies", "RemoveCopies", "CreateAccount",
                  "CheckoutBook", "ReturnBook"}
Printing(cmd) == cmd.type \in {"PrintCatalog", "PrintAccounts"}

\* The calls of the read accessors.
CallBook(id) == [type |-> "Book", ID |-> id]
CallCheckoutsByBook(id) == [type |-> "CheckoutsByBook", ID |-> id]
CallCheckoutsByAccount(id) == [type |-> "CheckoutsByAccount", ID |-> id]

\* Everything but the lock, the threads and the store.
Sequential == <<last, importer, inv, driver>>

SetThread(t, th) == threads' = [threads EXCEPT ![t] = th]

\* Thread t calls the store operation of cmd, or executes a print command.
Begin(t, cmd) ==
    /\ threads[t].pc = "idle"
    /\ SetThread(t, [Idle EXCEPT !.cmd = cmd,
                                 !.pc = IF Mutating(cmd) THEN "Lock" ELSE "RLock"])
    /\ UNCHANGED <<Store, mu, Sequential>>

\* l.mu.Lock(), first half: t takes the mutex of the writers and announces
\* itself to the readers.
LockW(t) ==
    /\ threads[t].pc = "Lock"
    /\ mu.w = None
    /\ mu' = [mu EXCEPT !.w = t]
    /\ SetThread(t, [threads[t] EXCEPT !.pc = "drain"])
    /\ UNCHANGED <<Store, Sequential>>

\* Mutant of LockDrained: Lock does not wait for the readers to leave.
LockDrained_IgnoresReaders(t) ==
    /\ threads[t].pc = "drain"
    /\ mu' = [mu EXCEPT !.held = TRUE]
    /\ SetThread(t, [threads[t] EXCEPT !.pc = "check"])
    /\ UNCHANGED <<Store, Sequential>>

\* l.mu.Lock(), second half: the readers that held the lock have left.
LockDrained(t) ==
    /\ threads[t].pc = "drain"
    /\ \A u \in ThreadIDs : mu.active[u] = 0
    /\ mu' = [mu EXCEPT !.held = TRUE]
    /\ SetThread(t, [threads[t] EXCEPT !.pc = "check"])
    /\ UNCHANGED <<Store, Sequential>>

\* The checks of a mutating method read the store.
Check(t) ==
    /\ threads[t].pc = "check"
    /\ SetThread(t, [threads[t] EXCEPT !.pc = "update", !.seen = Lib])
    /\ UNCHANGED <<Store, mu, Sequential>>

\* The method writes what follows from what it read, or returns its error.
Update(t) ==
    /\ threads[t].pc = "update"
    /\ LET r == StoreCall(threads[t].seen, threads[t].cmd) IN
       /\ SetStore(r.lib)
       /\ SetThread(t, [threads[t] EXCEPT !.pc = "Unlock", !.err = r.err,
                                          !.seen = New])
    /\ UNCHANGED <<mu, Sequential>>

\* defer l.mu.Unlock(): the readers blocked in RLock are let in.
Unlock(t) ==
    /\ threads[t].pc = "Unlock"
    /\ mu' = [w |-> None, held |-> FALSE,
              active |-> [u \in ThreadIDs |->
                             mu.active[u] + IF u \in mu.blocked THEN 1 ELSE 0],
              blocked |-> {}]
    /\ SetThread(t, [Idle EXCEPT !.err = threads[t].err])
    /\ UNCHANGED <<Store, Sequential>>

\* Where a thread goes on once it holds the read lock.
AfterRLock(th) ==
    IF th.cmd.type = "Export" THEN "rangeBooks"
    ELSE IF Printing(th.cmd) /\ ~th.nested THEN "range" ELSE "read"

\* l.mu.RLock(): t has the read lock at once unless a writer holds the lock
\* or is inside Lock, and then t blocks.
RLock(t) ==
    /\ threads[t].pc = "RLock"
    /\ IF mu.w = None
       THEN /\ mu' = [mu EXCEPT !.active[t] = @ + 1]
            /\ SetThread(t, [threads[t] EXCEPT !.pc = AfterRLock(threads[t])])
       ELSE /\ mu' = [mu EXCEPT !.blocked = @ \cup {t}]
            /\ SetThread(t, [threads[t] EXCEPT !.pc = "RLockWait"])
    /\ UNCHANGED <<Store, Sequential>>

\* An Unlock has let t in.
RLockAdmitted(t) ==
    /\ threads[t].pc = "RLockWait"
    /\ t \notin mu.blocked
    /\ SetThread(t, [threads[t] EXCEPT !.pc = AfterRLock(threads[t])])
    /\ UNCHANGED <<Store, mu, Sequential>>

\* EachBook or EachAccount starts to range over its map, in some order.
Range(t, order) ==
    /\ threads[t].pc = "range"
    /\ SetThread(t, [threads[t] EXCEPT !.pc = "visit", !.todo = order])
    /\ UNCHANGED <<Store, mu, Sequential>>

\* The loop calls the visitor for the next key, and the visitor calls its
\* first accessor; or the loop is over.
Visit(t) ==
    /\ threads[t].pc = "visit"
    /\ IF threads[t].todo = <<>>
       THEN SetThread(t, [threads[t] EXCEPT !.pc = "RUnlock"])
       ELSE SetThread(t, [threads[t] EXCEPT
                !.pc = "RLock", !.nested = TRUE,
                !.calls = IF threads[t].cmd.type = "PrintCatalog"
                          THEN <<CallCheckoutsByBook(Head(threads[t].todo))>>
                          ELSE <<CallCheckoutsByAccount(Head(threads[t].todo))>>])
    /\ UNCHANGED <<Store, mu, Sequential>>

\* The body of a read accessor.  The visitor of PrintAccounts goes on to
\* call Book for every checkout that CheckoutsByAccount returned.
Read(t) ==
    /\ threads[t].pc = "read"
    /\ IF threads[t].nested
       THEN LET call == Head(threads[t].calls)
                more == IF call.type = "CheckoutsByAccount"
                        THEN LET cs == CheckoutsByAccount(Lib, call.ID)
                             IN  [i \in 1..Len(cs) |-> CallBook(cs[i].BookID)]
                        ELSE <<>>
            IN  SetThread(t, [threads[t] EXCEPT
                    !.pc = "RUnlock", !.calls = Tail(@) \o more])
       ELSE SetThread(t, [threads[t] EXCEPT !.pc = "RUnlock"])
    /\ UNCHANGED <<Store, mu, Sequential>>

\* defer l.mu.RUnlock(), of an accessor or of EachBook / EachAccount.
RUnlock(t) ==
    /\ threads[t].pc = "RUnlock"
    /\ mu' = [mu EXCEPT !.active[t] = @ - 1]
    /\ IF ~threads[t].nested THEN SetThread(t, Idle)
       ELSE IF threads[t].calls # <<>>
       THEN SetThread(t, [threads[t] EXCEPT !.pc = "RLock"])
       ELSE SetThread(t, [threads[t] EXCEPT
                !.pc = "visit", !.nested = FALSE, !.todo = Tail(@)])
    /\ UNCHANGED <<Store, Sequential>>

\* The calls the threads make.
ThreadCommands ==
    {CmdAddBook(1, "Dune", 1), CmdRemoveCopies(1, 1), CmdCreateAccount(1, "Ada"),
     CmdCheckoutBook(1, 1), CmdReturnBook(1, 1), CallBook(1),
     CmdPrintCatalog, CmdPrintAccounts}

\* A step of thread t inside a call.
Proceed(t) ==
    \/ LockW(t)
    \/ LockDrained(t)
    \/ Check(t)
    \/ Update(t)
    \/ Unlock(t)
    \/ RLock(t)
    \/ RLockAdmitted(t)
    \/ \E order \in Orders(VisitKeys(Lib, threads[t].cmd)) : Range(t, order)
    \/ Visit(t)
    \/ Read(t)
    \/ RUnlock(t)

NextThreads ==
    \E t \in ThreadIDs :
        \/ \E cmd \in ThreadCommands : Begin(t, cmd)
        \/ Proceed(t)

SpecThreads == Init /\ [][NextThreads]_vars

\* The scheduler runs every thread that can take a step, and a thread
\* waiting for the mutex of the writers gets it in the end.
SpecThreadsFair ==
    SpecThreads /\ \A t \in ThreadIDs : SF_vars(Proceed(t))

(***************************************************************************)
(* Export called by a thread while other threads call mutating methods.    *)
(* Export takes the read lock once and writes one line at a time, each     *)
(* from the store as it is when the line is encoded.                       *)
(***************************************************************************)
CallExportBy == [type |-> "Export"]

\* The map the loop of Export that thread t is about to start ranges over.
ExportMap(t) ==
    CASE threads[t].pc = "rangeBooks" -> books
      [] threads[t].pc = "rangeAccounts" -> accounts
      [] threads[t].pc = "rangeKeys" -> checkoutsByAccount
      [] OTHER -> EmptyMap

\* One of the three loops of Export starts, to visit the keys in some order.
ExportRange(t, order) ==
    /\ threads[t].pc \in {"rangeBooks", "rangeAccounts", "rangeKeys"}
    /\ SetThread(t, [threads[t] EXCEPT
          !.todo = order,
          !.pc = CASE threads[t].pc = "rangeBooks" -> "emitBook"
                   [] threads[t].pc = "rangeAccounts" -> "emitAccount"
                   [] OTHER -> "emitKey"])
    /\ UNCHANGED <<Store, mu, Sequential>>

\* The command Export encodes next.
ExportNext(t) ==
    CASE threads[t].pc = "emitBook" ->
            LET book == books[Head(threads[t].todo)]
            IN  CmdAddBook(book.ID, book.Name, book.Count)
      [] threads[t].pc = "emitAccount" ->
            LET account == accounts[Head(threads[t].todo)]
            IN  CmdCreateAccount(account.ID, account.Name)
      [] OTHER ->
            CmdCheckoutBook(Head(threads[t].slice).AccountID,
                            Head(threads[t].slice).BookID)

\* enc.Encode(&inv) for the next book, account or checkout, which the
\* writer may refuse, or the end of the loop.
ExportEncode(t, ok) ==
    LET th == threads[t]
        inner == th.pc = "emitCheckout"
        over == IF inner THEN th.slice = <<>> ELSE th.todo = <<>>
    IN
    /\ th.pc \in {"emitBook", "emitAccount", "emitCheckout"}
    /\ IF over
       THEN /\ ok
            /\ SetThread(t, [th EXCEPT
                  !.pc = CASE th.pc = "emitBook" -> "rangeAccounts"
                           [] th.pc = "emitAccount" -> "rangeKeys"
                           [] OTHER -> "emitKey",
                  !.todo = IF inner THEN Tail(@) ELSE @])
       ELSE LET e == MarshalJSON(ExportNext(t)) IN
            IF ok /\ e.err = Nil
            THEN SetThread(t, [th EXCEPT
                    !.w = Append(@, e.line),
                    !.todo = IF inner THEN @ ELSE Tail(@),
                    !.slice = IF inner THEN Tail(@) ELSE @])
            ELSE SetThread(t, [th EXCEPT
                    !.pc = "RUnlock",
                    !.err = ErrWrite(IF e.err = Nil THEN "short write"
                                     ELSE e.err)])
    /\ UNCHANGED <<Store, mu, Sequential>>

\* The outer loop over checkoutsByAccount takes the slice of the next key,
\* or is over and Export returns nil.
ExportKey(t) ==
    /\ threads[t].pc = "emitKey"
    /\ IF threads[t].todo = <<>>
       THEN SetThread(t, [threads[t] EXCEPT !.pc = "RUnlock"])
       ELSE SetThread(t, [threads[t] EXCEPT
                !.pc = "emitCheckout",
                !.slice = Slice(checkoutsByAccount, Head(threads[t].todo))])
    /\ UNCHANGED <<Store, mu, Sequential>>

\* The calls the threads make while one of them exports.
ExportThreadCommands ==
    {CmdAddBook(1, "Dune", 1), CmdCreateAccount(1, "Ada"),
     CmdCheckoutBook(1, 1), CmdReturnBook(1, 1), CallExportBy}

NextExport ==
    \E t \in ThreadIDs :
        \/ \E cmd \in ExportThreadCommands : Begin(t, cmd)
        \/ LockW(t)
        \/ LockDrained(t)
        \/ Check(t)
        \/ Update(t)
        \/ Unlock(t)
        \/ RLock(t)
        \/ RLockAdmitted(t)
        \/ \E order \in Orders(DOMAIN ExportMap(t)) : ExportRange(t, order)
        \/ \E ok \in BOOLEAN : ExportEncode(t, ok)
        \/ ExportKey(t)
        \/ RUnlock(t)

SpecExport == Init /\ [][NextExport]_vars

(***************************************************************************)
(* A caller of every operation: the mutating methods, the read accessors   *)
(* and the execution of decoded commands, the two print commands among     *)
(* them.                                                                   *)
(***************************************************************************)
CallAccount(id) == [type |-> "Account", ID |-> id]

\* l.Account(id), l.Book(id), l.CheckoutsByAccount(id), l.CheckoutsByBook(id):
\* the accessor returns what it read and assigns nothing.
CallAccessor(call) ==
    /\ UNCHANGED Store
    /\ last' = [op |-> call.type, args |-> <<call.ID>>, err |-> Nil]
    /\ UNCHANGED <<importer, inv>>
    /\ UNCHANGED <<mu, threads, driver>>

FrameLines ==
    {MarshalJSON(cmd).line :
        cmd \in {CmdPrintCatalog, CmdPrintAccounts, CmdCheckoutBook(1, 1),
                 CmdRemoveCopies(1, MaxInt)}}

NextFrame ==
    \/ \E id \in RecordBookIDs, count \in RecordCountArgs :
          CallAddBook(id, "Dune", count)
    \/ \E id \in RecordBookIDs, count \in RecordCountArgs :
          WithinInt(id, count) /\ CallAddCopies(id, count)
    \/ \E id \in RecordBookIDs, count \in RecordCountArgs :
          CallRemoveCopies(id, count)
    \/ \E id \in RecordAccountIDs : CallCreateAccount(id, "Ada")
    \/ \E accountID \in RecordAccountIDs, bookID \in RecordBookIDs :
          CallCheckoutBook(accountID, bookID)
    \/ \E accountID \in RecordAccountIDs, bookID \in RecordBookIDs :
          CallReturnBook(accountID, bookID)
    \/ \E id \in RecordBookIDs :
          \E call \in {CallAccount(id), CallBook(id),
                       CallCheckoutsByAccount(id), CallCheckoutsByBook(id)} :
             CallAccessor(call)
    \/ \E line \in FrameLines : Decode(line)
    \/ \E order \in Orders(VisitKeys(Lib, inv.Command)) : ExecInvocation(order)

SpecFrame == Init /\ [][NextFrame]_vars

(***************************************************************************)
(* A run of the driver: main in cmd/library.  The store is the Library l   *)
(* of the process.                                                         *)
(***************************************************************************)
SetDriver(d) == /\ driver' = d
                /\ UNCHANGED <<last, importer, inv, mu, threads>>

\* os.Exit(1): the process ends and the DB file is as it is.
Exit1 == [driver EXCEPT !.pc = "off", !.exit = 1]

\* The process starts on a commands file: l := library.New(), and the DB
\* file is opened (and created empty if there is none), which the file
\* system may refuse.
DriverStart(commands, ok) ==
    /\ driver.pc = "off"
    /\ SetStore(New)
    /\ SetDriver([pc |-> IF ok THEN "load" ELSE "off",
                  exit |-> IF ok THEN 0 ELSE 1, db |-> driver.db,
                  commands |-> commands, export |-> NoFile,
                  before |-> driver.db])

\* l.Import(db, ImportOptions{})
DriverLoad ==
    /\ driver.pc = "load"
    /\ LET r == Import(Lib, driver.db) IN
       /\ SetStore(r.lib)
       /\ SetDriver(IF r.err # Nil THEN Exit1 ELSE [driver EXCEPT !.pc = "run"])

\* Mutant of DriverRun: the error of the commands is ignored.
DriverRun_IgnoresError(ok) ==
    /\ driver.pc = "run"
    /\ IF ~ok THEN UNCHANGED Store /\ SetDriver(Exit1)
       ELSE LET r == Import(Lib, driver.commands) IN
            /\ SetStore(r.lib)
            /\ SetDriver([driver EXCEPT !.pc = "temp"])

\* The commands file is opened, which the file system may refuse; then
\* l.Import(commands, ImportOptions{LogOutput: true})
DriverRun(ok) ==
    /\ driver.pc = "run"
    /\ IF ~ok THEN UNCHANGED Store /\ SetDriver(Exit1)
       ELSE LET r == Import(Lib, driver.commands) IN
            /\ SetStore(r.lib)
            /\ SetDriver(IF r.err # Nil THEN Exit1
                         ELSE [driver EXCEPT !.pc = "temp"])

\* os.CreateTemp, which the file system may refuse.
DriverCreateTemp(ok) ==
    /\ driver.pc = "temp"
    /\ UNCHANGED Store
    /\ SetDriver(IF ok THEN [driver EXCEPT !.pc = "export", !.export = File(<<>>)]
                 ELSE Exit1)

\* l.Export(export): the lines are written one by one, and the file system
\* may refuse the write after n of them.
DriverExport(bookOrder, accountOrder, keyOrder, n) ==
    /\ driver.pc = "export"
    /\ UNCHANGED Store
    /\ LET e == Export(Lib, bookOrder, accountOrder, keyOrder) IN
       IF e.err = Nil /\ n >= Len(e.w)
       THEN SetDriver([driver EXCEPT !.pc = "rename", !.export = File(e.w)])
       ELSE SetDriver([Exit1 EXCEPT !.export = File(SubSeq(e.w, 1, n))])

\* export.Sync() and os.Rename(export.Name(), *dbPath), which the file
\* system may refuse; then main returns.
DriverRename(ok) ==
    /\ driver.pc = "rename"
    /\ UNCHANGED Store
    /\ SetDriver(IF ok
                 THEN [driver EXCEPT !.pc = "off", !.exit = 0,
                                     !.db = driver.export.lines]
                 ELSE Exit1)

\* The lines a commands file may hold, and the commands files.
DriverLines ==
    {MarshalJSON(cmd).line :
        cmd \in {CmdAddBook(1, "Dune", 1), CmdCreateAccount(1, "Ada"),
                 CmdCheckoutBook(1, 1), CmdAddCopies(1, -1)}}
    \cup {Garbage}
DriverFiles == UNION {[1..n -> DriverLines] : n \in 0..MaxStream}

\* How many lines of an export the file system may take: all, or fewer.
Writes == 0..MaxStream

NextDriver ==
    \/ \E commands \in DriverFiles, ok \in BOOLEAN : DriverStart(commands, ok)
    \/ DriverLoad
    \/ \E ok \in BOOLEAN : DriverRun(ok)
    \/ \E ok \in BOOLEAN : DriverCreateTemp(ok)
    \/ \E bookOrder \in Orders(DOMAIN books),
          accountOrder \in Orders(DOMAIN accounts),
          keyOrder \in Orders(DOMAIN checkoutsByAccount), n \in Writes :
          DriverExport(bookOrder, accountOrder, keyOrder, n)
    \/ \E ok \in BOOLEAN : DriverRename(ok)

SpecDriver == Init /\ [][NextDriver]_vars

(***************************************************************************)
(* What a state shows of the store.                                        *)
(***************************************************************************)
\* The live checkouts of a book and of an account, as the indices hold them.
LiveOfBook(bookID) == Slice(checkoutsByBook, bookID)
LiveOfAccount(accountID) == Slice(checkoutsByAccount, accountID)

\* How many times the checkout (accountID, bookID) occurs in a slice.
Occurrences(s, accountID, bookID) ==
    Cardinality({i \in 1..Len(s) : MatchCheckout(s[i], accountID, bookID)})

\* Every checkout either index holds.
IndexedCheckouts ==
    UNION {{checkoutsByAccount[k][i] : i \in 1..Len(checkoutsByAccount[k])} :
              k \in DOMAIN checkoutsByAccount}
    \cup UNION {{checkoutsByBook[k][i] : i \in 1..Len(checkoutsByBook[k])} :
                  k \in DOMAIN checkoutsByBook}

\* The two checkout indices.
Indices == <<checkoutsByAccount, checkoutsByBook>>

\* The arguments of the call last made.
Arg(i) == last.args[i]

(***************************************************************************)
(* Claims about the store, under Spec.                                     *)
(***************************************************************************)

\* C1: for every book, the number of live checkouts referencing it is at
\* most Book.Count.
C1_LiveWithinCount ==
    \A b \in DOMAIN books : Len(LiveOfBook(b)) <= books[b].Count

C3_FifthCheckoutLimitError ==
    /\ [](\A a \in DOMAIN checkoutsByAccount :
            Len(checkoutsByAccount[a]) <= MaxCheckouts)
    /\ [][\A a \in DOMAIN accounts :
             ( /\ last'.op = "CheckoutBook"
               /\ last'.args[1] = a
               /\ Len(LiveOfAccount(a)) >= MaxCheckouts )
             => last'.err = ErrCheckoutLimit /\ UNCHANGED Indices]_vars

\* C3 as amended: each account has at most 4 live checkouts, and a
\* checkout_book call for an account that holds 4 adds nothing to either
\* index; it fails with the limit-exceeded error when the book exists and
\* with the book-does-not-exist error when it does not.
C3_AtMostFourCheckouts ==
    /\ [](\A a \in DOMAIN checkoutsByAccount :
            Len(checkoutsByAccount[a]) <= MaxCheckouts)
    /\ [][\A a \in DOMAIN accounts :
             ( /\ last'.op = "CheckoutBook"
               /\ last'.args[1] = a
               /\ Len(LiveOfAccount(a)) >= MaxCheckouts )
             => /\ UNCHANGED Indices
                /\ last'.err = IF last'.args[2] \in DOMAIN books
                                THEN ErrCheckoutLimit
                                ELSE ErrBookNotExist]_vars

\* C3 witness: a fifth checkout, of a book the account does not hold, has
\* just been refused with the limit error.
C3_Witness ==
    /\ last.op = "CheckoutBook"
    /\ last.err = ErrCheckoutLimit
    /\ Len(LiveOfAccount(Arg(1))) = MaxCheckouts
    /\ Arg(2) \in DOMAIN books
    /\ ~ContainsCheckout(LiveOfAccount(Arg(1)), Arg(1), Arg(2))

\* C4: at most one live checkout per (account, book) pair, and a
\* checkout_book for a pair that has one fails with the duplicate error
\* (the account holding fewer than 4) and changes neither index.
C4_NoDuplicateCheckout ==
    /\ [](\A k \in DOMAIN checkoutsByAccount :
            \A i, j \in 1..Len(checkoutsByAccount[k]) :
                checkoutsByAccount[k][i] = checkoutsByAccount[k][j] => i = j)
    /\ [][\A a \in DOMAIN checkoutsByAccount, b \in BookIDs :
             ( /\ last'.op = "CheckoutBook"
               /\ last'.args = <<a, b>>
               /\ ContainsCheckout(checkoutsByAccount[a], a, b)
               /\ Len(checkoutsByAccount[a]) < MaxCheckouts )
             => last'.err = ErrDuplicateCheckout /\ UNCHANGED Indices]_vars

\* C4 witness: a second checkout of a pair has just been refused, while the
\* account holds another book as well.
C4_Witness ==
    /\ last.op = "CheckoutBook"
    /\ last.err = ErrDuplicateCheckout
    /\ Len(LiveOfAccount(Arg(1))) = 2
    /\ LiveOfAccount(Arg(1))[1].BookID = Arg(2)

\* C5: the two indices hold the same live checkouts: (a, b) is once in the
\* by-account index, under key a, exactly when it is once in the by-book
\* index, under key b, and nowhere else.
C5_IndicesAgree ==
    /\ \A c \in IndexedCheckouts :
          /\ Occurrences(LiveOfAccount(c.AccountID), c.AccountID, c.BookID) = 1
          /\ Occurrences(LiveOfBook(c.BookID), c.AccountID, c.BookID) = 1
    /\ \A k \in DOMAIN checkoutsByAccount :
          \A i \in 1..Len(checkoutsByAccount[k]) :
              checkoutsByAccount[k][i].AccountID = k
    /\ \A k \in DOMAIN checkoutsByBook :
          \A i \in 1..Len(checkoutsByBook[k]) :
              checkoutsByBook[k][i].BookID = k

\* C5 witness: a return has just removed one checkout of a book that another
\* account still holds, and that account holds a second book.
C5_Witness ==
    /\ last.op = "ReturnBook"
    /\ last.err = Nil
    /\ Len(LiveOfBook(Arg(2))) = 1
    /\ Len(LiveOfAccount(LiveOfBook(Arg(2))[1].AccountID)) = 2

\* C6: every live checkout's AccountID is an existing account's id and its
\* BookID an existing book's id.
C6_CheckoutsReferToRecords ==
    \A c \in IndexedCheckouts :
        c.AccountID \in DOMAIN accounts /\ c.BookID \in DOMAIN books

\* C6 witness: checkouts are live, and a checkout naming an unknown book
\* has just been refused.
C6_Witness ==
    /\ last.op = "CheckoutBook"
    /\ last.err = ErrBookNotExist
    /\ Arg(2) \notin DOMAIN books
    /\ checkoutsByBook # EmptyMap

\* C7: Book.Count >= 0 for every book in every reachable state, whatever
\* count arguments add_book, add_copies and remove_copies were given.
C7_CountNeverNegative ==
    \A b \in DOMAIN books : books[b].Count >= 0

\* The (AccountID, BookID) pairs of the live checkouts of a store.
CheckoutSet(l) ==
    UNION {{l.checkoutsByAccount[k][i] : i \in 1..Len(l.checkoutsByAccount[k])} :
              k \in DOMAIN l.checkoutsByAccount}

\* C8: importing what Export emitted into a fresh store never fails and
\* yields the same book records, account records and live checkouts, and
\* Export leaves the store as it was.
C8_ExportImportRoundTrip ==
    /\ [](last.op = "Export" =>
            LET r == Import(New, Arg(1)) IN
            /\ r.err = Nil
            /\ r.lib.books = books
            /\ r.lib.accounts = accounts
            /\ CheckoutSet(r.lib) = CheckoutSet(Lib))
    /\ [][last'.op = "Export" =>
             UNCHANGED <<books, accounts, checkoutsByAccount,
                         checkoutsByBook>>]_vars

\* The store that decoding and executing every line of r in order gives,
\* with the error Failed if a line does not decode or does not execute.
Failed == "failed"
RECURSIVE Replay(_, _)
Replay(l, r) ==
    IF r = <<>> THEN Res(l, Nil)
    ELSE LET d == UnmarshalJSON(Head(r))
             x == Exec(l, Decoded(Head(r)), ImportOrder(l, Head(r)))
         IN  IF d.err # Nil \/ x.err # Nil THEN Res(l, Failed)
             ELSE Replay(x.lib, Tail(r))

\* The error with which a line fails on store l: its decode error, as
\* Import wraps it, or else the error of executing it.
Failure(l, line) ==
    LET d == UnmarshalJSON(line) IN
    IF d.err # Nil THEN ErrRead(d.err)
    ELSE Exec(l, Decoded(line), ImportOrder(l, line)).err

\* C9: Import executes the lines in order and halts at the first that
\* fails to decode or to execute: the store is always what exactly the
\* lines executed so far produce from the store Import began with, the
\* error returned is that line's (a decode error inside Import's "failed
\* to read library state" wrapper), nil is returned only at the end of the
\* stream, and once Import has returned it changes the store no more.
C9_ImportHaltsAtFirstFailure ==
    /\ [](importer.pc # "idle" =>
            /\ Replay(importer.base, importer.done) = Res(Lib, Nil)
            /\ (importer.pc = "returned" /\ last.op = "Import"
                    /\ last.args # <<>>) =>
                   (last.err # Nil /\ last.err = Failure(Lib, Arg(1)))
            /\ (importer.pc = "returned" /\ last.op = "Import"
                    /\ last.args = <<>>) => last.err = Nil)
    /\ [][importer.pc = "reading" /\ importer'.pc = "returned" =>
             /\ last'.op = "Import"
             /\ importer'.done = importer.done
             /\ UNCHANGED Store]_vars
    /\ [][importer.pc = "returned" => UNCHANGED Store]_vars

\* C9 witness: Import has returned the error of a command that failed to
\* execute after two lines that changed the store, and the store keeps
\* their changes.
C9_Witness ==
    /\ importer.pc = "returned"
    /\ last.op = "Import"
    /\ last.err = ErrAddNegative
    /\ Len(importer.done) = 2
    /\ Lib # importer.base
    /\ DOMAIN books # {} /\ DOMAIN accounts # {}

\* C10: remove_copies(id, count) on an existing book with count >= 0 fails
\* with the invalid-argument error when count > Count, else with the
\* availability error when count > Count - live checkouts, else succeeds
\* and lowers Count by exactly count; a failure leaves Count as it was.
C10_RemoveCopies ==
    [][\A id \in DOMAIN books :
          (last'.op = "RemoveCopies" /\ last'.args[1] = id
              /\ last'.args[2] >= 0)
          => LET count == last'.args[2]
                 Count == books[id].Count
             IN  IF count > Count
                 THEN /\ last'.err = ErrRemoveMoreThanExist
                      /\ books'[id].Count = Count
                 ELSE IF count > Count - Len(LiveOfBook(id))
                 THEN /\ last'.err = ErrRemoveMoreThanAvailable
                      /\ books'[id].Count = Count
                 ELSE /\ last'.err = Nil
                      /\ books'[id].Count = Count - count]_vars

\* C10 witness: copies that exist but are checked out could not be removed.
C10_Witness ==
    /\ last.op = "RemoveCopies"
    /\ last.err = ErrRemoveMoreThanAvailable
    /\ 0 < Arg(2)
    /\ Arg(2) <= books[Arg(1)].Count
    /\ Len(LiveOfBook(Arg(1))) = 1

\* C11: whenever checkout_book succeeds for a pair, a return_book for the
\* pair that follows it succeeds and leaves both checkout indices (and the
\* whole store) exactly as they were before the checkout; a second
\* return_book for the pair then fails with the checkout-does-not-exist
\* error and changes nothing.
C11_CheckoutReturnRoundTrip ==
    \A a \in AccountIDs, b \in BookIDs :
        LET c == CheckoutBook(Lib, a, b)
            r == ReturnBook(c.lib, a, b)
            again == ReturnBook(r.lib, a, b)
        IN  c.err = Nil =>
                /\ r.err = Nil
                /\ r.lib = Lib
                /\ again.err = ErrCheckoutNotExist
                /\ again.lib = r.lib

\* C11 witness: a return has just succeeded for a pair that can be checked
\* out again, while the account holds another book and another account
\* holds the book returned.
C11_Witness ==
    /\ last.op = "ReturnBook"
    /\ last.err = Nil
    /\ CheckoutBook(Lib, Arg(1), Arg(2)).err = Nil
    /\ Len(LiveOfAccount(Arg(1))) = 1
    /\ Len(LiveOfBook(Arg(2))) = 1


(***************************************************************************)
(* Claims about the records, under SpecRecords.                            *)
(***************************************************************************)
\* The store after the step.
LibNext ==
    [books |-> books', accounts |-> accounts',
     checkoutsByAccount |-> checkoutsByAccount',
     checkoutsByBook |-> checkoutsByBook']

\* C12: add_book with an id the catalog holds fails with the already-exists
\* error whatever the name and the count are, a negative count included,
\* and leaves the book's Name and Count (and the whole store) unchanged.
C12_AddBookExistingID ==
    [][\A id \in DOMAIN books :
          (last'.op = "AddBook" /\ last'.args[1] = id)
          => /\ last'.err = ErrBookAlreadyExists
             /\ books'[id] = books[id]
             /\ UNCHANGED Store]_vars

\* C12 witness: an add_book with a negative count and another name has just
\* been refused because the id exists.
C12_Witness ==
    /\ last.op = "AddBook"
    /\ last.err = ErrBookAlreadyExists
    /\ Arg(3) < 0
    /\ Arg(2) # books[Arg(1)].Name

\* C13: add_book(id, name, count) with an unused id and count >= 0
\* succeeds, lookup_book(id) right after it returns a record with that
\* Count and that Name, and no other book, no account and no checkout is
\* changed.
C13_AddBookThenLookup ==
    [][\A id \in RecordBookIDs \ DOMAIN books :
          (last'.op = "AddBook" /\ last'.args[1] = id /\ last'.args[3] >= 0)
          => /\ last'.err = Nil
             /\ Book(LibNext, id) =
                    [ID |-> id, Name |-> last'.args[2], Count |-> last'.args[3]]
             /\ DOMAIN books' = DOMAIN books \cup {id}
             /\ \A other \in DOMAIN books : books'[other] = books[other]
             /\ UNCHANGED <<accounts, checkoutsByAccount, checkoutsByBook>>]_vars

\* C13 witness: a second book, with the largest count there is, has just
\* been added to a store that holds a book of another name, an account and
\* a checkout.
C13_Witness ==
    /\ last.op = "AddBook"
    /\ last.err = Nil
    /\ Book(Lib, Arg(1)).Count = MaxInt
    /\ \E other \in DOMAIN books : books[other].Name # Arg(2)
    /\ accounts # EmptyMap
    /\ checkoutsByBook # EmptyMap

\* C19: a book or an account that exists is never deleted and keeps its id
\* and its name: lookup returns a record with that id and that name in
\* every later state; an account record never changes, and a book's Count
\* changes only in add_copies and remove_copies.
C19_RecordsKeepIdentity ==
    /\ [](/\ \A id \in DOMAIN books : books[id].ID = id
          /\ \A id \in DOMAIN accounts : accounts[id].ID = id)
    /\ [][/\ \A id \in DOMAIN books :
               /\ Book(LibNext, id) # NilPointer
               /\ Book(LibNext, id).ID = id
               /\ Book(LibNext, id).Name = books[id].Name
               /\ Book(LibNext, id).Count # books[id].Count
                      => last'.op \in {"AddCopies", "RemoveCopies"}
          /\ \A id \in DOMAIN accounts :
               Account(LibNext, id) = accounts[id]]_vars

\* C19 witness: creating an account again under another name has just been
\* refused, in a store that holds a book with the largest count, a book
\* with no copies and a checkout.
C19_Witness ==
    /\ last.op = "CreateAccount"
    /\ last.err = ErrAccountAlreadyExists
    /\ Arg(2) # accounts[Arg(1)].Name
    /\ \E id \in DOMAIN books : books[id].Count = MaxInt
    /\ \E id \in DOMAIN books : books[id].Count = 0
    /\ checkoutsByAccount # EmptyMap


(***************************************************************************)
(* Claims about the order of the checks, under SpecLimit.                  *)
(***************************************************************************)
\* C20: checkout_book returns the first failure, in the order account does
\* not exist, book does not exist, checkout limit, duplicate checkout, of
\* those whose condition holds, and nil when none holds; return_book
\* likewise in the order account does not exist, book does not exist,
\* checkout does not exist.
C20_ErrorPrecedence ==
    [][LET a == last'.args[1]
           b == last'.args[2]
       IN  /\ last'.op = "CheckoutBook" =>
                last'.err =
                    IF a \notin DOMAIN accounts THEN ErrAccountNotExist
                    ELSE IF b \notin DOMAIN books THEN ErrBookNotExist
                    ELSE IF Len(LiveOfAccount(a)) >= MaxCheckouts
                         THEN ErrCheckoutLimit
                    ELSE IF ContainsCheckout(LiveOfAccount(a), a, b)
                         THEN ErrDuplicateCheckout
                    ELSE Nil
           /\ last'.op = "ReturnBook" =>
                last'.err =
                    IF a \notin DOMAIN accounts THEN ErrAccountNotExist
                    ELSE IF b \notin DOMAIN books THEN ErrBookNotExist
                    ELSE IF ~ContainsCheckout(LiveOfAccount(a), a, b)
                         THEN ErrCheckoutNotExist
                    ELSE Nil]_vars

\* C20 witness: an account that holds 4 books has just asked for one of
\* them again and been refused with the limit error.
C20_Witness ==
    /\ last.op = "CheckoutBook"
    /\ last.err = ErrCheckoutLimit
    /\ Len(LiveOfAccount(Arg(1))) = MaxCheckouts
    /\ ContainsCheckout(LiveOfAccount(Arg(1)), Arg(1), Arg(2))


(***************************************************************************)
(* Claims about the command layer, under SpecExec.                         *)
(***************************************************************************)
\* The eight name tokens.
NameTokens ==
    {"ADD_BOOK", "ADD_COPIES", "REMOVE_COPIES", "CREATE_ACCOUNT",
     "CHECKOUT_BOOK", "RETURN_BOOK", "PRINT_CATALOG", "PRINT_ACCOUNTS"}

\* The command variant an Invocation was decoded as.
Variant(i) == UnmarshalJSON(i.RawCommand).cmd

\* The text by which a narration says that a command of a type failed.
FailureText(type) ==
    CASE type = "AddBook" -> {") could not be added to the catalog, "}
      [] type = "AddCopies" -> {"could not add ", ") could not add "}
      [] type = "RemoveCopies" -> {"could not remove ", ") could not remove "}
      [] type = "CreateAccount" -> {") could not create account, "}
      [] type = "CheckoutBook" ->
             {"could not checkout book, account (",
              ") could not checkout book, book (", ") could not checkout "}
      [] type = "ReturnBook" ->
             {"could not return book, account (",
              ") could not return book, book (", ") could not return "}
      [] OTHER -> {}

IsFailureNarration(output, type) ==
    \E i \in 1..Len(output) : output[i] \in FailureText(type)

\* C14: whenever executing an Invocation of one of the eight variants
\* fails, its Output is a failure narration for that command when Exec
\* returns, and the error returned is the error the store operation
\* returned.
C14_FailureNarratedErrorUnchanged ==
    [][(last'.op = "Exec" /\ last'.err # Nil
           /\ inv.RawCommand.name \in NameTokens)
       => /\ IsFailureNarration(inv'.Output, Variant(inv).type)
          /\ last'.err = StoreCall(Lib, Variant(inv)).err]_vars


(***************************************************************************)
(* Claims about the encoding, under SpecCodec.                             *)
(***************************************************************************)
\* The name token of each variant.
Token(type) ==
    CASE type = "AddBook" -> "ADD_BOOK"
      [] type = "AddCopies" -> "ADD_COPIES"
      [] type = "RemoveCopies" -> "REMOVE_COPIES"
      [] type = "CreateAccount" -> "CREATE_ACCOUNT"
      [] type = "CheckoutBook" -> "CHECKOUT_BOOK"
      [] type = "ReturnBook" -> "RETURN_BOOK"
      [] type = "PrintCatalog" -> "PRINT_CATALOG"
      [] type = "PrintAccounts" -> "PRINT_ACCOUNTS"

\* C15: encoding and decoding are inverse for every variant and payload:
\* a command encodes, under the fixed name token of its variant, to a
\* record that decodes to the same variant with the same payload, and a
\* record that decodes encodes again to the same name and arguments.
C15_EncodeDecodeInverse ==
    /\ [][(last.op = "Invocation" /\ last'.op = "MarshalJSON")
          => /\ last'.err = Nil
             /\ last'.args[1].name = Token(inv.Command.type)]_vars
    /\ [][(last.op = "MarshalJSON" /\ last.err = Nil
              /\ last'.op = "Decode" /\ last'.args = last.args)
          => /\ last'.err = Nil
             /\ inv'.Command = inv.Command]_vars
    /\ [][(last'.op = "Decode" /\ last'.err = Nil)
          => /\ MarshalJSON(inv'.Command).err = Nil
             /\ MarshalJSON(inv'.Command).line = last'.args[1]]_vars


(***************************************************************************)
(* Claims about the threads, under SpecThreads and SpecThreadsFair.        *)
(***************************************************************************)
\* Thread t is inside the critical section of a mutating method, or of a
\* read accessor, EachBook or EachAccount.
Writing(t) == threads[t].pc \in {"check", "update", "Unlock"}
Reading(t) ==
    threads[t].pc \in {"range", "visit", "read", "RUnlock"} \/ threads[t].nested

\* The global invariants of the store: counts are not negative, a book has
\* no more live checkouts than copies, an account has at most 4 checkouts
\* and no two of one book, and checkouts refer to existing records.
GlobalInvariants ==
    /\ \A b \in DOMAIN books : books[b].Count >= 0
    /\ \A b \in DOMAIN books : Len(LiveOfBook(b)) <= books[b].Count
    /\ \A a \in DOMAIN checkoutsByAccount :
          Len(checkoutsByAccount[a]) <= MaxCheckouts
    /\ \A a \in DOMAIN checkoutsByAccount :
          \A i, j \in 1..Len(checkoutsByAccount[a]) :
              checkoutsByAccount[a][i] = checkoutsByAccount[a][j] => i = j
    /\ \A c \in IndexedCheckouts :
          c.AccountID \in DOMAIN accounts /\ c.BookID \in DOMAIN books

\* C16: while a thread is inside the critical section of a mutating method
\* no other thread is inside a critical section of any method, so that
\* what the method read is still the store when it writes, and the global
\* invariants hold in every state.
C16_WritersExcludeAll ==
    /\ [](\A t, u \in ThreadIDs :
            (t # u /\ Writing(t)) => (~Writing(u) /\ ~Reading(u)))
    /\ [](\A t \in ThreadIDs :
            threads[t].pc = "update" => threads[t].seen = Lib)
    /\ []GlobalInvariants

\* C17: every call a thread has started returns.
C17_EveryCallReturns ==
    \A t \in ThreadIDs :
        [](threads[t].pc # "idle" => <>(threads[t].pc = "idle"))

(***************************************************************************)
(* The replays of a run, worked out from the files the process was given:  *)
(* the store after the DB file, then after the commands file.              *)
(***************************************************************************)
Loaded == Import(New, driver.before)
Ran == Import(Loaded.lib, driver.commands)
Replayed == Loaded.err = Nil /\ Ran.err = Nil

\* C18: the DB file is replaced only by the rename of a run, by the
\* temporary file that run exported to, and only when the replay of the DB
\* file and the replay of the whole commands file both succeeded; in a run
\* where a replay fails, no temporary file is written and the DB file keeps
\* the contents it had when the run started.
C18_ReplaceOnlyOnSuccess ==
    [][/\ driver'.db # driver.db
            => /\ Replayed
               /\ driver.pc = "rename"
               /\ driver.export.exists
               /\ driver'.db = driver.export.lines
       /\ (driver'.export.exists /\ ~driver.export.exists) => Replayed
       /\ (driver.pc # "off" /\ ~Replayed)
            => /\ driver'.db = driver.before
               /\ ~driver'.export.exists
               /\ driver'.pc # "rename"]_vars

\* A run has ended with exit code 1 on a failing command, after earlier
\* commands of the run changed the store, and the DB file, which was not
\* empty, is as it was when the run started.
C18_Witness ==
    /\ driver.pc = "off" /\ driver.exit = 1
    /\ Loaded.err = Nil /\ Ran.err # Nil
    /\ Lib = Ran.lib /\ Lib # Loaded.lib
    /\ driver.db = driver.before /\ driver.db # <<>>
    /\ ~driver.export.exists

\* C21: add_copies(id, count) fails with the book-does-not-exist error for
\* an unknown id, whatever the count, and with the negative-copies error
\* for count < 0 on an existing book; otherwise it succeeds and Book.Count
\* is the previous Count plus count as mathematical integers, so that the
\* new Count is never smaller than the old one.
C21_AddCopiesExact ==
    [][last'.op = "AddCopies"
          => LET id == last'.args[1]
                 count == last'.args[2]
             IN  IF id \notin DOMAIN books
                 THEN last'.err = ErrBookNotExist
                 ELSE IF count < 0
                 THEN last'.err = ErrAddNegative
                 ELSE /\ last'.err = Nil
                      /\ books'[id].Count = books[id].Count + count
                      /\ books'[id].Count >= books[id].Count]_vars

\* The operations that change nothing whatever they return: the read
\* accessors, and the execution of the two print commands.
ReadOps == {"Account", "Book", "CheckoutsByAccount", "CheckoutsByBook"}
StoreOps ==
    {"AddBook", "AddCopies", "RemoveCopies", "CreateAccount", "CheckoutBook",
     "ReturnBook"}

\* C22: a call of add_book, add_copies, remove_copies, create_account,
\* checkout_book or return_book that returns a failure, made directly or
\* by the execution of a command, leaves the book records, the account
\* records and both checkout indices as they were; the read operations and
\* the execution of PRINT_CATALOG and PRINT_ACCOUNTS leave them as they
\* were in every case.
C22_FailureChangesNothing ==
    [][/\ (last'.op \in StoreOps /\ last'.err # Nil) => LibNext = Lib
       /\ (last'.op = "Exec" /\ last'.err # Nil) => LibNext = Lib
       /\ (last'.op = "Exec" /\ Printing(inv.Command))
            => LibNext = Lib /\ last'.err = Nil
       /\ last'.op \in ReadOps => LibNext = Lib]_vars

\* The execution of a command that changes the store has failed on a store
\* that holds a book, an account and a checkout.
C22_Witness ==
    /\ last.op = "Exec" /\ last.err \notin {Nil, ErrExecUnknown}
    /\ Mutating(Variant(inv))
    /\ DOMAIN books # {} /\ DOMAIN accounts # {}
    /\ \E id \in DOMAIN checkoutsByBook : Len(checkoutsByBook[id]) > 0

\* C23: the execution of a decoded command of any of the eight variants,
\* whether it succeeds or fails, leaves the invocation with the same
\* variant and payload, so that it still encodes to the record it was
\* decoded from and a further execution does not take the
\* unknown-command-type branch.
C23_ExecKeepsCommand ==
    [][(last'.op = "Exec" /\ inv.Command = Variant(inv)
            /\ inv.Command # NoCommand)
          => /\ inv'.Command = inv.Command
             /\ MarshalJSON(inv'.Command).err = Nil
             /\ MarshalJSON(inv'.Command).line = inv.RawCommand
             /\ \A order \in Orders(VisitKeys(LibNext, inv'.Command)) :
                   Exec(LibNext, inv', order).err # ErrExecUnknown]_vars

\* Thread t is inside Export, between RLock and RUnlock.
Exporting(t) ==
    /\ threads[t].cmd = CallExportBy
    /\ threads[t].pc \in {"rangeBooks", "emitBook", "rangeAccounts",
                          "emitAccount", "rangeKeys", "emitKey",
                          "emitCheckout", "RUnlock"}

\* The lines Export writes for store l, in every order of its three loops.
Exports(l) ==
    {Export(l, bookOrder, accountOrder, keyOrder).w :
        bookOrder \in Orders(DOMAIN l.books),
        accountOrder \in Orders(DOMAIN l.accounts),
        keyOrder \in Orders(DOMAIN l.checkoutsByAccount)}

\* Every CHECKOUT_BOOK among the lines w names an account and a book that
\* a CREATE_ACCOUNT and an ADD_BOOK among them name.
Closed(w) ==
    LET cmds == [i \in 1..Len(w) |-> UnmarshalJSON(w[i]).cmd] IN
    \A i \in 1..Len(w) :
        cmds[i].type = "CheckoutBook"
        => /\ \E j \in 1..Len(w) :
                 cmds[j].type = "AddBook" /\ cmds[j].ID = cmds[i].BookID
           /\ \E j \in 1..Len(w) :
                 cmds[j].type = "CreateAccount"
                 /\ cmds[j].ID = cmds[i].AccountID

\* C24: while other threads call mutating methods, the lines an Export
\* that returned nil has written are the export of one state of the store,
\* the one it has from the first line to the last: no step changes the
\* store while a thread is inside Export, every CHECKOUT_BOOK written
\* names an account and a book that are written too, and an Export that
\* the writer stopped has written the first lines of such an export.
C24_ExportIsSnapshot ==
    /\ [][(\E t \in ThreadIDs : Exporting(t)) => UNCHANGED Store]_vars
    /\ [](\A t \in ThreadIDs :
            (Exporting(t) /\ threads[t].pc = "RUnlock")
            => IF threads[t].err = Nil
               THEN threads[t].w \in Exports(Lib) /\ Closed(threads[t].w)
               ELSE \E w \in Exports(Lib) :
                       /\ Len(threads[t].w) < Len(w)
                       /\ threads[t].w = SubSeq(w, 1, Len(threads[t].w)))

\* An Export has written a book, an account and a checkout and returned
\* nil while another thread, inside Lock of a mutating method, waits for it
\* to leave.
C24_Witness ==
    \E t, u \in ThreadIDs :
        /\ Exporting(t) /\ threads[t].pc = "RUnlock" /\ threads[t].err = Nil
        /\ Len(threads[t].w) = 3
        /\ threads[u].pc = "drain" /\ Mutating(threads[u].cmd)

====
